---- MODULE Spec2Model ----
(***************************************************************************)
(* Batch export engine of export_libsafe: BatchExporter.export_batch and   *)
(* the helpers it calls (validators, CSV/directory resumption scan,        *)
(* download-to-temp-and-rename), run repeatedly over one export directory. *)
(*                                                                         *)
(* Text is modelled as a sequence of one-character strings, so that the    *)
(* string operations of the code (split, regex match, sanitising, path     *)
(* suffix handling, lexicographic comparison) are computed, not assumed.   *)
(***************************************************************************)
EXTENDS Integers, Sequences, FiniteSets, TLC

(***************************************************************************)
(* Bounds of the model                                                     *)
(***************************************************************************)
MaxRuns == 3

MaxLimit == 2

(***************************************************************************)
(* Characters and generic string helpers                                   *)
(***************************************************************************)
AsciiDigits == {"0", "1", "2", "3", "4", "5", "6", "7", "8", "9"}

\* One representative of the decimal digits outside ASCII (U+0663).
ArabicThree == "U+0663"

\* What the regex class \d matches on a Python 3 str pattern.
ReDigits == AsciiDigits \cup {ArabicThree}

Newline == "\n"

LowerLetters ==
    {"a", "b", "c", "d", "e", "f", "g", "h", "i", "j", "k", "l", "m",
     "n", "o", "p", "q", "r", "s", "t", "u", "v", "w", "x", "y", "z"}

UpperLetters ==
    {"A", "B", "C", "D", "E", "F", "G", "H", "I", "J", "K", "L", "M",
     "N", "O", "P", "Q", "R", "S", "T", "U", "V", "W", "X", "Y", "Z"}

\* The characters kept by sanitize_filename: [a-zA-Z0-9._-]
SafeChars == LowerLetters \cup UpperLetters \cup AsciiDigits \cup {".", "_", "-"}

Contains(s, c) == \E i \in 1..Len(s) : s[i] = c

\* Largest index at which c occurs in s, 0 when it does not occur (str.rfind + 1).
RFind(s, c) ==
    IF Contains(s, c)
    THEN CHOOSE i \in 1..Len(s) : s[i] = c /\ \A j \in (i+1)..Len(s) : s[j] # c
    ELSE 0

\* Smallest index at which c occurs in s, 0 when it does not occur.
Find(s, c) ==
    IF Contains(s, c)
    THEN CHOOSE i \in 1..Len(s) : s[i] = c /\ \A j \in 1..(i-1) : s[j] # c
    ELSE 0

\* s.split(c)[-1]
LastSegment(s, c) == SubSeq(s, RFind(s, c) + 1, Len(s))

\* s.split(c)[1], defined when s contains c
SecondSegment(s, c) ==
    IF Find(SubSeq(s, Find(s, c) + 1, Len(s)), c) = 0
    THEN SubSeq(s, Find(s, c) + 1, Len(s))
    ELSE SubSeq(s, Find(s, c) + 1,
                Find(s, c) + Find(SubSeq(s, Find(s, c) + 1, Len(s)), c) - 1)

AllIn(s, chars) == \A i \in 1..Len(s) : s[i] \in chars

(***************************************************************************)
(* validators.py                                                           *)
(***************************************************************************)
\* ^\d+/\d+ over the whole of s
IsHandleForm(s) ==
    \E k \in 2..(Len(s) - 1) :
        /\ s[k] = "/"
        /\ AllIn(SubSeq(s, 1, k - 1), ReDigits)
        /\ AllIn(SubSeq(s, k + 1, Len(s)), ReDigits)

\* re.match(r'^\d+/\d+$', handle): $ also matches just before a final newline.
validate_handle(handle) ==
    \/ IsHandleForm(handle)
    \/ /\ Len(handle) > 0
       /\ handle[Len(handle)] = Newline
       /\ IsHandleForm(SubSeq(handle, 1, Len(handle) - 1))

\* Nothing removed.
KeepAll(s) == s

\* re.sub(r'[^a-zA-Z0-9._-]', '', s)
RECURSIVE KeepSafe(_)
KeepSafe(s) ==
    IF s = <<>> THEN <<>>
    ELSE IF Head(s) \in SafeChars THEN <<Head(s)>> \o KeepSafe(Tail(s))
    ELSE KeepSafe(Tail(s))

\* s.lstrip('.')
RECURSIVE LStripDots(_)
LStripDots(s) ==
    IF s # <<>> /\ Head(s) = "." THEN LStripDots(Tail(s)) ELSE s

\* re.sub(r'\.{2,}', '.', s)
RECURSIVE CollapseDots(_)
CollapseDots(s) ==
    IF Len(s) < 2 THEN s
    ELSE IF s[1] = "." /\ s[2] = "." THEN CollapseDots(Tail(s))
    ELSE <<Head(s)>> \o CollapseDots(Tail(s))

\* The leading dots stripped before the other characters are removed.
sanitize_filename_strip_first(filename) == CollapseDots(KeepSafe(LStripDots(filename)))

\* sanitize_filename, lines 126-132, in the order of the code.
sanitize_filename(filename) == CollapseDots(LStripDots(KeepSafe(filename)))

(***************************************************************************)
(* pathlib: names of direct children of the export directory               *)
(***************************************************************************)
\* Index of the dot that starts PurePath.suffix, 0 when the name has no suffix.
SuffixDot(name) ==
    IF RFind(name, ".") > 1 /\ RFind(name, ".") < Len(name)
    THEN RFind(name, ".") ELSE 0

PathSuffix(name) ==
    IF SuffixDot(name) = 0 THEN <<>> ELSE SubSeq(name, SuffixDot(name), Len(name))

PathStem(name) ==
    IF SuffixDot(name) = 0 THEN name ELSE SubSeq(name, 1, SuffixDot(name) - 1)

DotPdf == <<".", "p", "d", "f">>

DotTmp == <<".", "t", "m", "p">>

\* file_path.with_suffix('.tmp')
TempName(name) == PathStem(name) \o DotTmp

(***************************************************************************)
(* Dates: validate_date (datetime.strptime with '%Y-%m-%d') and the string *)
(* comparison of the command line.  Date text uses ASCII digits and '-'.   *)
(***************************************************************************)
NoDate == <<>>

DigitValue(c) ==
    CASE c = "0" -> 0 [] c = "1" -> 1 [] c = "2" -> 2 [] c = "3" -> 3
      [] c = "4" -> 4 [] c = "5" -> 5 [] c = "6" -> 6 [] c = "7" -> 7
      [] c = "8" -> 8 [] c = "9" -> 9

\* Code points, as compared by Python's str ordering.
CharCode(c) == IF c = "-" THEN 45 ELSE 48 + DigitValue(c)

RECURSIVE NumberValue(_)
NumberValue(s) ==
    IF s = <<>> THEN 0
    ELSE 10 * NumberValue(SubSeq(s, 1, Len(s) - 1)) + DigitValue(s[Len(s)])

\* The three '-'-separated parts of s, or <<>> when s has not exactly two dashes.
DateParts(s) ==
    IF /\ Find(s, "-") > 0
       /\ RFind(s, "-") > Find(s, "-")
       /\ ~Contains(SubSeq(s, Find(s, "-") + 1, RFind(s, "-") - 1), "-")
    THEN << SubSeq(s, 1, Find(s, "-") - 1),
            SubSeq(s, Find(s, "-") + 1, RFind(s, "-") - 1),
            SubSeq(s, RFind(s, "-") + 1, Len(s)) >>
    ELSE <<>>

IsLeapYear(y) == (y % 4 = 0 /\ y % 100 # 0) \/ y % 400 = 0

DaysInMonth(y, m) ==
    IF m = 2 THEN (IF IsLeapYear(y) THEN 29 ELSE 28)
    ELSE IF m \in {4, 6, 9, 11} THEN 30 ELSE 31

\* %Y is exactly four digits; %m and %d are one or two digits, in range.
DateOk(s) ==
    /\ DateParts(s) # <<>>
    /\ Len(DateParts(s)[1]) = 4
    /\ Len(DateParts(s)[2]) \in {1, 2}
    /\ Len(DateParts(s)[3]) \in {1, 2}
    /\ \A k \in 1..3 : AllIn(DateParts(s)[k], AsciiDigits)
    /\ NumberValue(DateParts(s)[1]) >= 1
    /\ NumberValue(DateParts(s)[2]) \in 1..12
    /\ NumberValue(DateParts(s)[3]) >= 1
    /\ NumberValue(DateParts(s)[3]) <=
           DaysInMonth(NumberValue(DateParts(s)[1]), NumberValue(DateParts(s)[2]))

\* validate_date(date_string): TRUE when it returns, FALSE when it raises.
validate_date(date_string) == DateOk(date_string)

\* The calendar day a valid date string denotes, as one comparable number.
DateKey(s) ==
    NumberValue(DateParts(s)[1]) * 10000
        + NumberValue(DateParts(s)[2]) * 100
        + NumberValue(DateParts(s)[3])

\* Python's a > b on str: lexicographic by code point, a proper extension is greater.
RECURSIVE StrGreater(_, _)
StrGreater(a, b) ==
    IF a = <<>> THEN FALSE
    ELSE IF b = <<>> THEN TRUE
    ELSE IF CharCode(Head(a)) # CharCode(Head(b))
         THEN CharCode(Head(a)) > CharCode(Head(b))
    ELSE StrGreater(Tail(a), Tail(b))

\* main(): "if args.start and args.end: if args.start > args.end: parser.error"
MainRejectsRange(start, end) ==
    start # NoDate /\ end # NoDate /\ StrGreater(start, end)

(***************************************************************************)
(* The world the runs see: the rows of the metadata store and the remote   *)
(* repository.  Handles, identifiers and field values are small fixed      *)
(* samples; which fetches succeed, which handles are embargoed and what is *)
(* already in the export directory are chosen freely.                      *)
(***************************************************************************)
HA == <<"7", "/", "1">>

HB == <<"7", "/", "2">>

\* Same suffix as HA under another prefix.
HC == <<"8", "/", "1">>

\* Rejected by validate_handle.
HBad == <<"7", "/", "x">>

\* Rows of get_handles_for_export, in the order the store returns them
\* (SELECT DISTINCT: no handle twice).
StoredHandles == <<HA, HBad, HB, HC>>

Uuids == {"u1", "u2", "u3"}

\* Rows of get_bitstream_uuids for a handle, in the order returned.
BitstreamUuids(handle) ==
    IF handle = HA THEN <<"u1", "u2">>
    ELSE IF handle = HC THEN <<"u3">>
    ELSE <<>>

\* What get_bitstream_content plus the local write do for an identifier:
\*   "ok"      200 with a body within the size limit, written to disk
\*   "big"     200 with a body over the size limit
\*   "error"   the client raises (401, 404, other status, retries exhausted)
\*   "ioerror" 200 with a body within the limit, but write_bytes raises midway
Outcomes == {"ok", "big", "error", "ioerror"}

\* The repositories explored: every outcome for the first identifier of HA,
\* success or a raised error for the other two identifiers.
FetchWorlds ==
    { w \in [Uuids -> Outcomes] : w["u2"] \in {"ok", "error"} /\ w["u3"] \in {"ok", "error"} }

EmbargoSets == {{}, {HA}, {HB}}

\* Config.MAX_FILE_SIZE = 100 * 1024 * 1024
MAX_FILE_SIZE == 104857600

\* len(response['body']) for an identifier whose fetch returns: one byte over
\* the limit, exactly the limit for the body that is kept, one byte for the
\* body whose write fails.
BodyLength(outcome) ==
    IF outcome = "big" THEN MAX_FILE_SIZE + 1
    ELSE IF outcome = "ok" THEN MAX_FILE_SIZE
    ELSE 1

Sp == " "

\* Rows of get_metadata_values(handle, field), in rowID order.
MetadataValues(handle, field) ==
    IF field = "dc.type"
    THEN (IF handle = HA THEN << <<"A", Sp>>, <<"B">> >> ELSE << <<"A">> >>)
    ELSE IF field = "dc.contributor.author" /\ handle = HA
    THEN << <<"x", Sp, Sp, "y">>, <<"z">> >>
    ELSE << >>

(***************************************************************************)
(* BatchExporter: class attributes and _get_metadata_for_handle            *)
(***************************************************************************)
WORK_FIELDS ==
    << [label |-> "Type", field |-> "dc.type"],
       [label |-> "Title", field |-> "dc.title"],
       [label |-> "Author", field |-> "dc.contributor.author"],
       [label |-> "DOI", field |-> "dc.identifier.doi"],
       [label |-> "Publication Date", field |-> "dc.date.issued"],
       [label |-> "Repository Record Created", field |-> "dc.date.accessioned"] >>

HandleColumn == <<"H", "a", "n", "d", "l", "e">>

FileColumn == <<"F", "i", "l", "e">>

\* Column names of the CSV; the six metadata columns are kept as their labels.
CSV_FIELDNAMES ==
    <<HandleColumn, FileColumn>> \o [i \in 1..Len(WORK_FIELDS) |-> <<WORK_FIELDS[i].label>>]

UrlPrefix ==
    <<"h", "t", "t", "p", ":", "/", "/", "h", "d", "l", ".",
      "h", "a", "n", "d", "l", "e", ".", "n", "e", "t", "/">>

\* f'http://hdl.handle.net/{handle}'
HandleUrl(handle) == UrlPrefix \o handle

\* '; '.join(values)
RECURSIVE JoinValues(_)
JoinValues(values) ==
    IF values = <<>> THEN <<>>
    ELSE IF Len(values) = 1 THEN values[1]
    ELSE values[1] \o <<";", Sp>> \o JoinValues(Tail(values))

\* re.sub(r'\s+', ' ', s): every run of white space becomes one space.
RECURSIVE CollapseSpace(_)
CollapseSpace(s) ==
    IF s = <<>> THEN <<>>
    ELSE IF Head(s) \in {Sp, Newline}
         THEN (IF Len(s) > 1 /\ s[2] \in {Sp, Newline}
               THEN CollapseSpace(Tail(s))
               ELSE <<Sp>> \o CollapseSpace(Tail(s)))
    ELSE <<Head(s)>> \o CollapseSpace(Tail(s))

\* s.strip() of a string whose white space is already collapsed to single spaces
StripSpace(s) ==
    SubSeq(s, (IF s # <<>> /\ s[1] = Sp THEN 2 ELSE 1),
              (IF s # <<>> /\ s[Len(s)] = Sp THEN Len(s) - 1 ELSE Len(s)))

\* Index of the first "; " in s, 0 when there is none.
FindSeparator(s) ==
    IF \E i \in 1..(Len(s) - 1) : s[i] = ";" /\ s[i + 1] = Sp
    THEN CHOOSE i \in 1..(Len(s) - 1) :
            /\ s[i] = ";" /\ s[i + 1] = Sp
            /\ \A j \in 1..(i - 1) : ~(s[j] = ";" /\ s[j + 1] = Sp)
    ELSE 0

\* The cell of one field: joined, white space normalised, and for Type the
\* text before the first "; ".
FieldCell(label, values) ==
    IF label = "Type" /\ FindSeparator(StripSpace(CollapseSpace(JoinValues(values)))) > 0
    THEN SubSeq(StripSpace(CollapseSpace(JoinValues(values))), 1,
                FindSeparator(StripSpace(CollapseSpace(JoinValues(values)))) - 1)
    ELSE StripSpace(CollapseSpace(JoinValues(values)))

\* _get_metadata_for_handle, with File filled in as export_batch does: the row
\* in column order.
MetadataRow(handle, filename) ==
    <<HandleUrl(handle), filename>>
        \o [i \in 1..Len(WORK_FIELDS) |->
                FieldCell(WORK_FIELDS[i].label,
                          MetadataValues(handle, WORK_FIELDS[i].field))]

\* handle.split('/')[1]
HandleSuffix(handle) == SecondSegment(handle, "/")

\* sanitize_filename(f"{handle_suffix}.pdf")
FileNameOf(handle) == sanitize_filename(HandleSuffix(handle) \o DotPdf)

(***************************************************************************)
(* _get_existing_handles_from_csv: csv.DictReader over the lines on disk   *)
(***************************************************************************)
\* Position of the last column called Handle among the reader's field names
\* (dict(zip(...)) keeps the last of equal keys), 0 when there is none.
HandleColumnIndex(fieldnames) ==
    IF \E j \in 1..Len(fieldnames) : fieldnames[j] = HandleColumn
    THEN CHOOSE j \in 1..Len(fieldnames) :
            /\ fieldnames[j] = HandleColumn
            /\ \A k \in (j + 1)..Len(fieldnames) : fieldnames[k] # HandleColumn
    ELSE 0

\* row.get('Handle', '') for one line read under the given field names
RowHandleUrl(fieldnames, line) ==
    IF HandleColumnIndex(fieldnames) = 0 \/ HandleColumnIndex(fieldnames) > Len(line)
    THEN <<>>
    ELSE line[HandleColumnIndex(fieldnames)]

\* The first line is taken as the field names, whatever it holds; each later
\* line whose Handle value contains '/' gives its last '/'-segment.
GetExistingHandlesFromCsv(file) ==
    IF ~file.exists \/ file.lines = <<>> THEN {}
    ELSE { LastSegment(RowHandleUrl(file.lines[1], file.lines[i]), "/") :
             i \in { k \in 2..Len(file.lines) :
                       Contains(RowHandleUrl(file.lines[1], file.lines[k]), "/") } }

(***************************************************************************)
(* The export directory                                                    *)
(***************************************************************************)
\* A regular file holding the content named by data; complete is FALSE while
\* write_bytes is under way or after it failed.
FileEntry(data, complete) == [kind |-> "file", data |-> data, complete |-> complete]

\* A symbolic link whose target is a regular file outside the export directory.
LinkEntry == [kind |-> "link", data |-> "outside", complete |-> TRUE]

Pdf1 == <<"1">> \o DotPdf

Pdf2 == <<"2">> \o DotPdf

EmptyDir == [n \in {} |-> LinkEntry]

\* What is in the export directory before the first run: nothing, a file
\* placed for suffix 2, or a file placed for suffix 1 beside a link at 2.pdf.
InitialDirs ==
    { EmptyDir,
      [n \in {Pdf2} |-> FileEntry("placed", TRUE)],
      [n \in {Pdf1, Pdf2} |-> IF n = Pdf1 THEN FileEntry("placed", TRUE) ELSE LinkEntry] }

\* Path.is_file() follows links.
IsFile(d, name) == name \in DOMAIN d

\* A scan of the directory that finds no file, whatever is there.
GetExistingFilesFindsNone(d) == {}

\* _get_existing_files: stems of the regular files whose suffix is '.pdf'
GetExistingFiles(d) ==
    { PathStem(n) : n \in { m \in DOMAIN d : IsFile(d, m) /\ PathSuffix(m) = DotPdf } }

\* validate_safe_path(export_dir / name, export_dir): resolve() follows a link
\* at the path itself, so the prefix test fails exactly for a link leading out.
validate_safe_path(d, name) == ~(name \in DOMAIN d /\ d[name].kind = "link")

PutFile(d, name, entry) ==
    [n \in DOMAIN d \cup {name} |-> IF n = name THEN entry ELSE d[n]]

RemoveFile(d, name) == [n \in DOMAIN d \ {name} |-> d[n]]

(***************************************************************************)
(* State                                                                   *)
(***************************************************************************)
VARIABLES
    dir,              \* the export directory: file name -> entry (metadata.csv apart)
    csv,              \* metadata.csv: [exists, lines], a line being its cells
    fetch_outcome,    \* the repository: identifier -> outcome of fetching it
    runs,             \* processes started so far
    pc,               \* where the current run stands
    entry,            \* "cli" (main) or "direct" (export_batch called by other code)
    db_impl,          \* class of the db object handed to BatchExporter
    start_date,       \* arguments of the run
    end_date,
    limit,
    existing_in_csv,  \* locals of export_batch
    existing_files,
    all_handles,
    embargoed,        \* result of get_embargoed_handles in this run
    handles,
    taken,            \* how many elements of handles the for loop has taken
    metadata,         \* the row assembled for the current handle
    uuids,
    uuid_index,       \* position in uuids of the identifier being tried
    downloaded_count,
    stats,            \* BatchExporter.stats
    summary,          \* the value export_batch returns
    log,              \* what the current run did so far, in order
    at_start,         \* what was on disk when the current run started
    exit_code,        \* the exit status of the last process: {} when it gave none
    call,             \* the DSpaceClient: its bearer token and the call under way
    text_in,          \* the argument of a validator call
    text_out          \* what the validator call gave

vars ==
    << dir, csv, fetch_outcome, runs, pc, entry, db_impl, start_date, end_date,
       limit, existing_in_csv, existing_files, all_handles, embargoed, handles,
       taken, metadata, uuids, uuid_index, downloaded_count, stats, summary, log,
       at_start, exit_code, call, text_in, text_out >>

\* What no step of a run changes: the repository, and the state of the calls
\* that are studied on their own.
world == << fetch_outcome, call, text_in, text_out >>

history == << log, at_start >>

args == << entry, db_impl, limit >>

dates == << start_date, end_date >>

scan == << existing_in_csv, existing_files, embargoed >>

attempt == << metadata, uuids, uuid_index >>

NoDates == { NoDate }

DateArgs ==
    { NoDate,
      <<"2", "0", "2", "4", "-", "9", "-", "0", "1">>,
      <<"2", "0", "2", "4", "-", "1", "0", "-", "0", "1">>,
      <<"2", "4", "-", "1", "-", "5">> }

\* DatabaseConnection is the class of src/irts_export/database; LookupService
\* is any object offering the four lookups with the arguments export_batch
\* passes.
DbImpls == {"DatabaseConnection", "LookupService"}

NoSummary == [produced |-> FALSE]

ZeroStats == [total |-> 0, success |-> 0, skipped |-> 0, errors |-> 0]

Event(op, handle, uuid) == [op |-> op, handle |-> handle, uuid |-> uuid]

Logged(op, handle, uuid) == log' = Append(log, Event(op, handle, uuid))

RunningStates ==
    { "main_check", "setup", "validate_dates", "read_state", "get_handles", "get_embargoed",
      "open_csv", "write_header", "loop", "metadata", "row_existing", "get_uuids",
      "fetch", "write_temp", "write_temp_end", "rename", "row_downloaded", "close" }

\* "done": export_batch returned.  "raised": an exception left export_batch.
\* "rejected": main refused the arguments.
EndStates == { "done", "raised", "rejected" }

\* No process: "idle" before the first run, "exited" after a run that ended by
\* itself, "stopped" after one that was interrupted or killed.
RestStates == { "idle", "exited", "stopped" }

NoExit == {}

NoCall == [pc |-> "idle", bearer_token |-> "None", previous |-> "none"]

NoText == <<>>

NoTextResult == [op |-> "none"]

\* The exporter before its first run.
ExporterInit ==
    /\ dir \in InitialDirs
    /\ csv = [exists |-> FALSE, lines |-> <<>>]
    /\ fetch_outcome \in FetchWorlds
    /\ runs = 0
    /\ pc = "idle"
    /\ entry = "cli"
    /\ db_impl = "DatabaseConnection"
    /\ start_date = NoDate
    /\ end_date = NoDate
    /\ limit = 0
    /\ existing_in_csv = {}
    /\ existing_files = {}
    /\ all_handles = <<>>
    /\ embargoed = {}
    /\ handles = <<>>
    /\ taken = 0
    /\ metadata = <<>>
    /\ uuids = <<>>
    /\ uuid_index = 0
    /\ downloaded_count = 0
    /\ stats = ZeroStats
    /\ summary = NoSummary
    /\ log = <<>>
    /\ at_start = [dir |-> dir, lines |-> <<>>]
    /\ exit_code = NoExit

Init ==
    /\ ExporterInit
    /\ call = NoCall
    /\ text_in = NoText
    /\ text_out = NoTextResult

(***************************************************************************)
(* Starting a run: main() or a direct call of export_batch on a new        *)
(* BatchExporter.  main always builds a DatabaseConnection.                *)
(***************************************************************************)
\* The memory of a process that has not started export_batch's body yet.
FreshLocals ==
    /\ existing_in_csv' = {}
    /\ existing_files' = {}
    /\ all_handles' = <<>>
    /\ embargoed' = {}
    /\ handles' = <<>>
    /\ taken' = 0
    /\ metadata' = <<>>
    /\ uuids' = <<>>
    /\ uuid_index' = 0
    /\ downloaded_count' = 0
    /\ stats' = ZeroStats
    /\ summary' = NoSummary
    /\ log' = <<>>

\* An exception leaves export_batch: its arguments and locals are gone, the
\* exporter's stats and what the run did remain.
FrameGone ==
    /\ start_date' = NoDate
    /\ end_date' = NoDate
    /\ limit' = 0
    /\ existing_in_csv' = {}
    /\ existing_files' = {}
    /\ all_handles' = <<>>
    /\ embargoed' = {}
    /\ handles' = <<>>
    /\ taken' = 0
    /\ metadata' = <<>>
    /\ uuids' = <<>>
    /\ uuid_index' = 0
    /\ downloaded_count' = 0
    /\ summary' = NoSummary

\* Nothing of a process that is gone remains but what it left on disk.
ProcessGone ==
    /\ entry' = "cli"
    /\ db_impl' = "DatabaseConnection"
    /\ start_date' = NoDate
    /\ end_date' = NoDate
    /\ limit' = 0
    /\ FreshLocals
    /\ at_start' = [dir |-> dir, lines |-> csv.lines]

StartRun(date_choices, limit_choices) ==
    /\ pc \in RestStates
    /\ runs < MaxRuns
    /\ runs' = runs + 1
    /\ \E e \in {"cli", "direct"}, d \in DbImpls :
          /\ e = "cli" => d = "DatabaseConnection"
          /\ entry' = e
          /\ db_impl' = d
          /\ pc' = IF e = "cli" THEN "main_check" ELSE "validate_dates"
    /\ start_date' \in date_choices
    /\ end_date' \in date_choices
    /\ limit' \in limit_choices
    /\ FreshLocals
    /\ at_start' = [dir |-> dir, lines |-> csv.lines]
    /\ exit_code' = NoExit
    /\ UNCHANGED << dir, csv, world >>

\* export_batch is called again on a BatchExporter whose earlier call has
\* returned or raised: the locals start afresh (lines 221-248), self.stats is
\* the dictionary made in __init__ (lines 67-72) and keeps its counts.
CallAgain(date_choices, limit_choices) ==
    /\ pc \in {"done", "raised"}
    /\ entry = "direct"
    /\ runs < MaxRuns
    /\ runs' = runs + 1
    /\ pc' = "validate_dates"
    /\ start_date' \in date_choices
    /\ end_date' \in date_choices
    /\ limit' \in limit_choices
    /\ existing_in_csv' = {}
    /\ existing_files' = {}
    /\ all_handles' = <<>>
    /\ embargoed' = {}
    /\ handles' = <<>>
    /\ taken' = 0
    /\ metadata' = <<>>
    /\ uuids' = <<>>
    /\ uuid_index' = 0
    /\ downloaded_count' = 0
    /\ summary' = NoSummary
    /\ log' = <<>>
    /\ at_start' = [dir |-> dir, lines |-> csv.lines]
    /\ UNCHANGED << stats, entry, db_impl, exit_code, dir, csv, world >>

\* main(), lines 77-79
MainRejectsNumber(number) == number < 0

\* main(), lines 77-85: the test of --number, then the date-range test on
\* the raw argument strings; parser.error ends the process.
MainCheck ==
    /\ pc = "main_check"
    /\ pc' = IF MainRejectsNumber(limit) \/ MainRejectsRange(start_date, end_date)
             THEN "rejected" ELSE "setup"
    /\ UNCHANGED << at_start, exit_code, dir, csv, world, runs, args, dates, scan, all_handles, handles,
                    taken, attempt, downloaded_count, stats, summary, log >>

\* main(), lines 95-130: the configuration is complete, the database
\* connection and the client are opened, the exporter is built and
\* export_batch is called.
Setup ==
    /\ pc = "setup"
    /\ pc' = "validate_dates"
    /\ UNCHANGED << at_start, exit_code, dir, csv, world, runs, args, dates, scan, all_handles, handles,
                    taken, attempt, downloaded_count, stats, summary, log >>

\* main(), lines 95-122: Config.validate() finds a required variable missing,
\* or the database connection cannot be opened: the exception reaches main's
\* handler before export_batch is called.
SetupError ==
    /\ pc = "setup"
    /\ pc' = "raised"
    /\ FrameGone
    /\ UNCHANGED << at_start, exit_code, dir, csv, world, runs, entry, db_impl, stats, log >>

\* export_batch, lines 223-227
ValidateDates ==
    /\ pc = "validate_dates"
    /\ IF /\ start_date # NoDate => validate_date(start_date)
          /\ end_date # NoDate => validate_date(end_date)
       THEN /\ pc' = "read_state"
            /\ UNCHANGED << limit, dates, scan, all_handles, handles, taken, attempt,
                            downloaded_count, summary >>
       ELSE /\ pc' = "raised"
            /\ FrameGone
    /\ UNCHANGED << at_start, exit_code, dir, csv, world, runs, entry, db_impl, stats, log >>

\* export_batch, lines 240-248
ReadState ==
    /\ pc = "read_state"
    /\ existing_in_csv' = GetExistingHandlesFromCsv(csv)
    /\ existing_files' = GetExistingFiles(dir)
    /\ downloaded_count' = 0
    /\ pc' = "get_handles"
    /\ UNCHANGED << at_start, exit_code, dir, csv, world, runs, args, dates, all_handles, embargoed, handles,
                    taken, attempt, stats, summary, log >>

\* export_batch, line 252, on a DatabaseConnection: get_handles_for_export
\* takes one argument besides self and is called with two, so the call raises
\* TypeError before any query is sent.
GetHandlesTypeError ==
    /\ pc = "get_handles"
    /\ db_impl = "DatabaseConnection"
    /\ Logged("get_handles_for_export", <<>>, "-")
    /\ pc' = "raised"
    /\ FrameGone
    /\ UNCHANGED << at_start, exit_code, dir, csv, world, runs, entry, db_impl, stats >>

\* export_batch, line 252, on a lookup service taking both bounds.
GetHandles ==
    /\ pc = "get_handles"
    /\ db_impl = "LookupService"
    /\ Logged("get_handles_for_export", <<>>, "-")
    /\ all_handles' = StoredHandles
    /\ pc' = "get_embargoed"
    /\ UNCHANGED << at_start, exit_code, dir, csv, world, runs, args, dates, scan, handles, taken, attempt,
                    downloaded_count, stats, summary >>

\* The candidate list taken as it is, the embargoed handles included.
FilterEmbargoedKeepsAll(list, excluded) == list

\* [h for h in all_handles if h not in embargoed]
RECURSIVE FilterEmbargoed(_, _)
FilterEmbargoed(list, excluded) ==
    IF list = <<>> THEN <<>>
    ELSE IF Head(list) \in excluded THEN FilterEmbargoed(Tail(list), excluded)
    ELSE <<Head(list)>> \o FilterEmbargoed(Tail(list), excluded)

\* export_batch, lines 257-260; the handles under embargo today are whatever
\* the store says at this moment.  The date arguments are not read after the
\* lookup of line 252 and are dropped here.
GetEmbargoed ==
    /\ pc = "get_embargoed"
    /\ start_date' = NoDate
    /\ end_date' = NoDate
    /\ embargoed' \in EmbargoSets
    /\ handles' = FilterEmbargoed(all_handles, embargoed')
    /\ Logged("get_embargoed_handles", <<>>, "-")
    /\ pc' = "open_csv"
    /\ UNCHANGED << at_start, exit_code, dir, csv, world, runs, args, existing_in_csv, existing_files,
                    all_handles, taken, attempt, downloaded_count, stats, summary >>

\* A lookup raises DatabaseError: nothing in export_batch catches it; inside the
\* loop the finally clause closes the CSV, which changes nothing on disk since
\* every row is flushed when written.
LookupError ==
    /\ pc \in {"get_handles", "get_embargoed", "metadata", "get_uuids"}
    /\ db_impl = "LookupService"
    /\ pc' = "raised"
    /\ FrameGone
    /\ UNCHANGED << at_start, exit_code, dir, csv, world, runs, entry, db_impl, stats, log >>

\* open (line 264), writeheader/flush (269-270) or writerow/flush (319-320,
\* 340-341) raises OSError: nothing in export_batch catches it.  The failed
\* call leaves the file as it was; inside the loop the finally clause closes it.
CsvWriteError ==
    /\ pc \in {"open_csv", "write_header", "row_existing", "row_downloaded"}
    /\ pc' = "raised"
    /\ FrameGone
    /\ UNCHANGED << at_start, exit_code, dir, csv, world, runs, entry, db_impl, stats, log >>

\* The CSV opened with mode 'w' whether or not it exists.
OpenCsvTruncates ==
    /\ pc = "open_csv"
    /\ pc' = "write_header"
    /\ csv' = [exists |-> TRUE, lines |-> <<>>]
    /\ UNCHANGED << at_start, exit_code, dir, world, runs, args, dates, scan, all_handles, handles, taken,
                    attempt, downloaded_count, stats, summary, log >>

\* export_batch, lines 262-265: 'a' for an existing file, 'w' creates it empty.
OpenCsv ==
    /\ pc = "open_csv"
    /\ IF csv.exists
       THEN /\ pc' = "loop"
            /\ csv' = csv
       ELSE /\ pc' = "write_header"
            /\ csv' = [exists |-> TRUE, lines |-> <<>>]
    /\ UNCHANGED << at_start, exit_code, dir, world, runs, args, dates, scan, all_handles, handles, taken,
                    attempt, downloaded_count, stats, summary, log >>

\* export_batch, lines 267-270: writeheader and flush.
WriteHeader ==
    /\ pc = "write_header"
    /\ csv' = [csv EXCEPT !.lines = Append(@, CSV_FIELDNAMES)]
    /\ Logged("header", <<>>, "-")
    /\ pc' = "loop"
    /\ UNCHANGED << at_start, exit_code, dir, world, runs, args, dates, scan, all_handles, handles, taken,
                    attempt, downloaded_count, stats, summary >>

(***************************************************************************)
(* The loop over the handles, export_batch lines 272-352                   *)
(***************************************************************************)
\* The handle the loop is working on.
CurrentHandle == handles[taken]

\* The limit test with > in place of >=.
LimitReachedLate(lim, count) == lim > 0 /\ count > lim

\* No limit test at all.
LimitReachedNever(lim, count) == FALSE

\* Line 276: the test that ends the loop early.
LimitReached(lim, count) == lim > 0 /\ count >= lim

\* Line 294
AlreadyInCsv(handle, in_csv) == HandleSuffix(handle) \in in_csv

\* Line 317
FileAlreadyThere(handle, files) == HandleSuffix(handle) \in files

\* Lines 274-297: leave the loop, or take the next handle and count it, then
\* validate it and test whether the CSV already has it.
LoopHead ==
    /\ pc = "loop"
    /\ IF taken = Len(handles) \/ LimitReached(limit, downloaded_count)
       THEN /\ pc' = "close"
            /\ UNCHANGED << taken, stats, log >>
       ELSE /\ taken' = taken + 1
            /\ IF ~validate_handle(handles[taken + 1])
               THEN /\ stats' = [stats EXCEPT !.total = @ + 1, !.errors = @ + 1]
                    /\ Logged("error", handles[taken + 1], "-")
                    /\ pc' = "loop"
               ELSE IF AlreadyInCsv(handles[taken + 1], existing_in_csv)
               THEN /\ stats' = [stats EXCEPT !.total = @ + 1, !.skipped = @ + 1]
                    /\ Logged("skipped", handles[taken + 1], "-")
                    /\ pc' = "loop"
               ELSE /\ stats' = [stats EXCEPT !.total = @ + 1]
                    /\ log' = log
                    /\ pc' = "metadata"
    /\ UNCHANGED << at_start, exit_code, dir, csv, world, runs, args, dates, scan, all_handles, handles,
                    attempt, downloaded_count, summary >>

\* Lines 299-324 up to the choice between the file on disk and a download:
\* the metadata lookups, the file name, the path check.
Metadata ==
    /\ pc = "metadata"
    /\ metadata' = MetadataRow(CurrentHandle, FileNameOf(CurrentHandle))
    /\ IF ~validate_safe_path(dir, FileNameOf(CurrentHandle))
       THEN /\ stats' = [stats EXCEPT !.errors = @ + 1]
            /\ log' = log \o << Event("get_metadata_values", CurrentHandle, "-"),
                                Event("error", CurrentHandle, "-") >>
            /\ pc' = "loop"
       ELSE /\ stats' = stats
            /\ Logged("get_metadata_values", CurrentHandle, "-")
            /\ pc' = IF FileAlreadyThere(CurrentHandle, existing_files)
                     THEN "row_existing" ELSE "get_uuids"
    /\ UNCHANGED << at_start, exit_code, dir, csv, world, runs, args, dates, scan, all_handles, handles,
                    taken, uuids, uuid_index, downloaded_count, summary >>

\* The row put in front of the rows the run has written so far.
WriteRowInFront ==
    /\ csv' = [csv EXCEPT !.lines = SubSeq(@, 1, Len(at_start.lines)) \o << metadata >>
                                     \o SubSeq(@, Len(at_start.lines) + 1, Len(@))]
    /\ stats' = [stats EXCEPT !.success = @ + 1]
    /\ downloaded_count' = downloaded_count + 1
    /\ log' = log \o << Event("writerow", CurrentHandle, "-"),
                        Event("success", CurrentHandle, "-") >>

\* writer.writerow(metadata); csv_file.flush(); the two counters.  A stop
\* between writerow and flush leaves the disk as a stop before or after both.
WriteRow ==
    /\ csv' = [csv EXCEPT !.lines = Append(@, metadata)]
    /\ stats' = [stats EXCEPT !.success = @ + 1]
    /\ downloaded_count' = downloaded_count + 1
    /\ log' = log \o << Event("writerow", CurrentHandle, "-"),
                        Event("success", CurrentHandle, "-") >>

\* Lines 317-324
RowExisting ==
    /\ pc = "row_existing"
    /\ WriteRow
    /\ pc' = "loop"
    /\ UNCHANGED << at_start, exit_code, dir, world, runs, args, dates, scan, all_handles, handles, taken,
                    attempt, summary >>

\* Lines 326-332
GetUuids ==
    /\ pc = "get_uuids"
    /\ uuids' = BitstreamUuids(CurrentHandle)
    /\ IF BitstreamUuids(CurrentHandle) = <<>>
       THEN /\ stats' = [stats EXCEPT !.errors = @ + 1]
            /\ log' = log \o << Event("get_bitstream_uuids", CurrentHandle, "-"),
                                Event("error", CurrentHandle, "-") >>
            /\ uuid_index' = 0
            /\ pc' = "loop"
       ELSE /\ stats' = stats
            /\ Logged("get_bitstream_uuids", CurrentHandle, "-")
            /\ uuid_index' = 1
            /\ pc' = "fetch"
    /\ UNCHANGED << at_start, exit_code, dir, csv, world, runs, args, dates, scan, all_handles, handles,
                    taken, metadata, downloaded_count, summary >>

CurrentUuid == uuids[uuid_index]

\* The else clause of the for loop over uuids without its count of the error.
DownloadFailedUncounted(events) ==
    IF uuid_index < Len(uuids)
    THEN /\ uuid_index' = uuid_index + 1
         /\ stats' = stats
         /\ log' = log \o events
         /\ pc' = "fetch"
    ELSE /\ uuid_index' = uuid_index
         /\ stats' = stats
         /\ log' = log \o events \o << Event("error", CurrentHandle, "-") >>
         /\ pc' = "loop"

\* _download_file returned False: the for loop over uuids goes on, and its else
\* clause (lines 349-352) counts the error when no identifier is left.
DownloadFailed(events) ==
    IF uuid_index < Len(uuids)
    THEN /\ uuid_index' = uuid_index + 1
         /\ stats' = stats
         /\ log' = log \o events
         /\ pc' = "fetch"
    ELSE /\ uuid_index' = uuid_index
         /\ stats' = [stats EXCEPT !.errors = @ + 1]
         /\ log' = log \o events \o << Event("error", CurrentHandle, "-") >>
         /\ pc' = "loop"

\* No size limit at all.
OverSizeLimitNever(length) == FALSE

\* A body of exactly the limit refused as well.
OverSizeLimitAtMax(length) == length >= MAX_FILE_SIZE

\* Lines 183-185
OverSizeLimit(length) == length > MAX_FILE_SIZE

\* _download_file, lines 175-185 and 197-202: the request and the size test.
Fetch ==
    /\ pc = "fetch"
    /\ IF \/ fetch_outcome[CurrentUuid] = "error"
          \/ OverSizeLimit(BodyLength(fetch_outcome[CurrentUuid]))
       THEN DownloadFailed(<< Event("get_bitstream_content", CurrentHandle, CurrentUuid) >>)
       ELSE /\ Logged("get_bitstream_content", CurrentHandle, CurrentUuid)
            /\ pc' = "write_temp"
            /\ UNCHANGED << uuid_index, stats >>
    /\ UNCHANGED << at_start, exit_code, dir, csv, world, runs, args, dates, scan, all_handles, handles,
                    taken, metadata, uuids, downloaded_count, summary >>

\* Lines 188-189, first half: write_bytes opens (creating or truncating) the
\* temporary file and starts writing.
WriteTemp ==
    /\ pc = "write_temp"
    /\ dir' = PutFile(dir, TempName(FileNameOf(CurrentHandle)), FileEntry(CurrentUuid, FALSE))
    /\ Logged("write_temp", CurrentHandle, CurrentUuid)
    /\ pc' = "write_temp_end"
    /\ UNCHANGED << at_start, exit_code, csv, world, runs, args, dates, scan, all_handles, handles, taken,
                    attempt, downloaded_count, stats, summary >>

\* A write_bytes whose failure goes unnoticed: the rename follows with the
\* temporary file as the failed write left it.
WriteTempEndUnnoticed ==
    /\ pc = "write_temp_end"
    /\ dir' = IF fetch_outcome[CurrentUuid] = "ioerror"
              THEN dir
              ELSE PutFile(dir, TempName(FileNameOf(CurrentHandle)),
                           FileEntry(CurrentUuid, TRUE))
    /\ pc' = "rename"
    /\ UNCHANGED << at_start, exit_code, csv, world, runs, args, dates, scan, all_handles,
                    handles, taken, attempt, downloaded_count, stats, summary, log >>

\* Lines 188-189, second half: the write completes, or raises OSError, which
\* _download_file catches (lines 199-202) with the temporary file left as it is.
WriteTempEnd ==
    /\ pc = "write_temp_end"
    /\ IF fetch_outcome[CurrentUuid] = "ioerror"
       THEN /\ DownloadFailed(<< >>)
            /\ dir' = dir
       ELSE /\ dir' = PutFile(dir, TempName(FileNameOf(CurrentHandle)),
                              FileEntry(CurrentUuid, TRUE))
            /\ pc' = "rename"
            /\ UNCHANGED << uuid_index, stats, log >>
    /\ UNCHANGED << at_start, exit_code, csv, world, runs, args, dates, scan, all_handles, handles, taken,
                    metadata, uuids, downloaded_count, summary >>

\* Line 192: temp_path.rename(file_path) replaces whatever is at file_path.
Rename ==
    /\ pc = "rename"
    /\ dir' = RemoveFile(PutFile(dir, FileNameOf(CurrentHandle),
                                 dir[TempName(FileNameOf(CurrentHandle))]),
                         TempName(FileNameOf(CurrentHandle)))
    /\ Logged("rename", CurrentHandle, CurrentUuid)
    /\ pc' = "row_downloaded"
    /\ UNCHANGED << at_start, exit_code, csv, world, runs, args, dates, scan, all_handles, handles, taken,
                    attempt, downloaded_count, stats, summary >>

\* The row after a successful download without the break of line 348: the
\* loop over the identifiers goes on while one is left.
RowDownloadedNoBreak ==
    /\ pc = "row_downloaded"
    /\ WriteRow
    /\ IF uuid_index < Len(uuids)
       THEN /\ uuid_index' = uuid_index + 1
            /\ pc' = "fetch"
       ELSE /\ uuid_index' = uuid_index
            /\ pc' = "loop"
    /\ UNCHANGED << at_start, exit_code, dir, world, runs, args, dates, scan, all_handles,
                    handles, taken, metadata, uuids, summary >>

\* Lines 338-348: the row after a successful download, then break.
RowDownloaded ==
    /\ pc = "row_downloaded"
    /\ WriteRow
    /\ pc' = "loop"
    /\ UNCHANGED << at_start, exit_code, dir, world, runs, args, dates, scan, all_handles, handles, taken,
                    attempt, summary >>

\* Lines 354-376: close the CSV and build the summary.
Close ==
    /\ pc = "close"
    /\ summary' = [ produced |-> TRUE,
                    total_handles |-> Len(handles),
                    processed |-> stats.total,
                    successful |-> stats.success,
                    skipped |-> stats.skipped,
                    errors |-> stats.errors,
                    limit |-> limit,
                    limit_reached |-> LimitReached(limit, downloaded_count) ]
    /\ pc' = "done"
    /\ UNCHANGED << at_start, exit_code, dir, csv, world, runs, args, dates, scan, all_handles, handles,
                    taken, attempt, downloaded_count, stats, log >>

\* sys.exit(130) of main's KeyboardInterrupt handler, lines 157-159
INTERRUPT_EXIT == 130

\* parser.error (argparse) ends the process with status 2.
USAGE_EXIT == 2

\* The exception handler of lines 161-163 left out: a run that raised ends
\* like one that returned.
MainExitCodeIgnoresFailure(ended, errors) ==
    IF ended = "rejected" THEN USAGE_EXIT
    ELSE IF errors > 0 THEN 1
    ELSE 0

\* main(), lines 77-85 and 149-163: the status main ends the process with,
\* from how the run ended and the errors its summary counts.
MainExitCode(ended, errors) ==
    IF ended = "rejected" THEN USAGE_EXIT
    ELSE IF ended = "raised" THEN 1
    ELSE IF errors > 0 THEN 1
    ELSE 0

\* The process is interrupted (KeyboardInterrupt) or killed at any point of a
\* run.  Inside main's try block an interrupt ends it with status 130; a kill,
\* or an interrupt before the try block, ends it by the signal with no exit
\* status of its own.  A direct caller of export_batch decides for itself.
\* Rows are flushed as they are written, so nothing buffered is pending
\* and the disk stays as it is.
AbruptStop ==
    /\ pc \in RunningStates
    /\ pc' = "stopped"
    /\ exit_code' \in IF entry = "cli" /\ pc # "main_check"
                      THEN { {INTERRUPT_EXIT}, NoExit } ELSE { NoExit }
    /\ ProcessGone
    /\ UNCHANGED << dir, csv, world, runs >>

\* The process ends after export_batch returned or raised, or after main
\* refused the arguments.
ProcessExit ==
    /\ pc \in EndStates
    /\ pc' = "exited"
    /\ exit_code' = IF entry = "cli"
                    THEN { MainExitCode(pc, IF pc = "done" THEN summary.errors ELSE 0) }
                    ELSE NoExit
    /\ ProcessGone
    /\ UNCHANGED << dir, csv, world, runs >>

Next ==
    \/ StartRun(NoDates, 0..MaxLimit)
    \/ MainCheck
    \/ Setup
    \/ SetupError
    \/ ValidateDates
    \/ ReadState
    \/ GetHandlesTypeError
    \/ GetHandles
    \/ GetEmbargoed
    \/ LookupError
    \/ CsvWriteError
    \/ OpenCsv
    \/ WriteHeader
    \/ LoopHead
    \/ Metadata
    \/ RowExisting
    \/ GetUuids
    \/ Fetch
    \/ WriteTemp
    \/ WriteTempEnd
    \/ Rename
    \/ RowDownloaded
    \/ Close
    \/ AbruptStop
    \/ ProcessExit

Spec == Init /\ [][Next]_vars

(***************************************************************************)
(* The same runs started with date arguments, over one repository and an   *)
(* empty directory.                                                        *)
(***************************************************************************)
InitDates ==
    /\ Init
    /\ dir = EmptyDir
    /\ fetch_outcome = [u \in Uuids |-> IF u = "u1" THEN "ioerror" ELSE "ok"]

NextDates ==
    \/ StartRun(DateArgs, (-1)..MaxLimit)
    \/ CallAgain(DateArgs, (-1)..MaxLimit)
    \/ MainCheck
    \/ Setup
    \/ SetupError
    \/ ValidateDates
    \/ ReadState
    \/ GetHandlesTypeError
    \/ GetHandles
    \/ GetEmbargoed
    \/ LookupError
    \/ CsvWriteError
    \/ OpenCsv
    \/ WriteHeader
    \/ LoopHead
    \/ Metadata
    \/ RowExisting
    \/ GetUuids
    \/ Fetch
    \/ WriteTemp
    \/ WriteTempEnd
    \/ Rename
    \/ RowDownloaded
    \/ Close
    \/ AbruptStop
    \/ ProcessExit

SpecDates == InitDates /\ [][NextDates]_vars

(***************************************************************************)
(* DSpaceClient.get_bitstream_content, one call at a time                  *)
(***************************************************************************)
\* stop_after_attempt(3)
MAX_ATTEMPTS == 3

\* The status codes a response is drawn from.
Statuses == {200, 204, 304, 401, 403, 404, 429, 500, 503, 599}

\* session.get raised requests.RequestException: no response at all.
NetworkFailure == [net |-> TRUE, status |-> 0]

Reply(status) == [net |-> FALSE, status |-> status]

ContentResponses == {NetworkFailure} \cup { Reply(s) : s \in Statuses }

\* authenticate(): status 200 with or without an Authorization header, any
\* other status, or no response.
LoginOutcomes == {"token", "no_token", "refused", "network"}

\* Every status but 200 is one generic error.
HandleResponseLumped(status) ==
    IF status = 200 THEN "success"
    ELSE IF status = 429 THEN "RateLimitError"
    ELSE IF 500 <= status /\ status < 600 THEN "ServerError"
    ELSE "DSpaceAPIError"

\* _handle_response, lines 146-182: "success", or the class of the exception.
HandleResponse(status) ==
    IF status = 200 THEN "success"
    ELSE IF status = 401 THEN "AuthenticationError"
    ELSE IF status = 404 THEN "NotFoundError"
    ELSE IF status = 429 THEN "RateLimitError"
    ELSE IF 500 <= status /\ status < 600 THEN "ServerError"
    ELSE "DSpaceAPIError"

\* Lines 235-244: what one request gives the function body.  The except
\* clause turns a RequestException into a plain DSpaceAPIError.
ContentOutcome(response) ==
    IF response.net THEN "DSpaceAPIError" ELSE HandleResponse(response.status)

\* retry_if_exception_type((RateLimitError, ServerError, RequestException)):
\* none of the client's exception classes derives from another of these.
RetrySet == {"RateLimitError", "ServerError", "RequestException"}

\* One attempt more than the ceiling.
MayRetryOnceMore(exception, attempt_number) ==
    exception \in RetrySet /\ attempt_number <= MAX_ATTEMPTS

\* The retry decorator, lines 184-189: after a failed attempt another one is
\* made when the exception is of a retried class and the ceiling is not reached.
MayRetry(exception, attempt_number) ==
    exception \in RetrySet /\ attempt_number < MAX_ATTEMPTS

CallEnded == call.pc \in {"returned", "raised"}

\* The exporter takes no step while a single call is studied.
others ==
    << dir, csv, fetch_outcome, runs, pc, entry, db_impl, start_date, end_date, limit,
       existing_in_csv, existing_files, all_handles, embargoed, handles, taken, metadata,
       uuids, uuid_index, downloaded_count, stats, summary, log, at_start, exit_code >>

\* What the caller passes as short_lived_token: nothing, the empty string, a
\* token of letters, digits, '-' and '_', or a text with another character.
ShortTokens == {"None", "", "tok-1", "tok 1"}

\* Line 221: token.replace('-', '').replace('_', '').isalnum()
TokenFormatOk(token) == token = "tok-1"

\* The Authorization header of a response: none, one with an empty value, or
\* one with a token.
AuthHeaders == {"absent", "empty", "token"}

\* The truth value Python gives None and a string.
Truthy(s) == s \notin {"None", ""}

\* The token is not looked at: authenticate whenever no bearer token is held.
NeedsLoginIgnoresToken(bearer, short) == ~Truthy(bearer)

\* Line 232: `not self.bearer_token and not short_lived_token`
NeedsLogin(bearer, short) == ~Truthy(bearer) /\ ~Truthy(short)

\* authenticate(), lines 88-90: bearer_token after a login that returned.
BearerAfterLogin(bearer, login) ==
    IF login = "token" THEN "Bearer"
    ELSE IF login = "no_token" THEN "None"
    ELSE bearer

\* _handle_response, lines 131-136: bearer_token after a response.
BearerAfterResponse(bearer, response, header) ==
    IF response.net \/ header = "absent" THEN bearer
    ELSE IF header = "empty" THEN ""
    ELSE "Bearer"

\* get_bitstream_content is called on the client, whatever bearer token it
\* holds from its earlier calls.
CallStart ==
    /\ call.pc = "idle"
    /\ \E valid \in BOOLEAN, short \in ShortTokens :
          call' = [ pc |-> "attempt", uuid_ok |-> valid, short_lived_token |-> short,
                    bearer_token |-> call.bearer_token, previous |-> call.previous,
                    attempt_number |-> 1, attempts |-> <<>>, responses |-> <<>>,
                    result |-> "none" ]
    /\ UNCHANGED << others, text_in, text_out >>

\* The exception leaves the call, or the decorator waits for the next attempt.
Raise(exception, after) ==
    IF MayRetry(exception, call.attempt_number)
    THEN call' = [after EXCEPT !.pc = "backoff"]
    ELSE call' = [after EXCEPT !.pc = "raised", !.result = exception]

\* The record of one attempt: whether a bearer token was held and a token
\* supplied when it began, whether it came to line 232, and whether it called
\* authenticate().
Noted(c, reached, authenticated) ==
    [c EXCEPT !.attempts = Append(@, [ held |-> Truthy(c.bearer_token),
                                       supplied |-> Truthy(c.short_lived_token),
                                       reached |-> reached,
                                       authenticated |-> authenticated ])]

\* The function body, lines 210-244, once: validate_uuid, the format of the
\* token, authenticate when line 232 says so, the request, _handle_response.
Attempt ==
    /\ call.pc = "attempt"
    /\ IF ~call.uuid_ok
       THEN Raise("InvalidUUIDError", Noted(call, FALSE, FALSE))
       ELSE IF Truthy(call.short_lived_token) /\ ~TokenFormatOk(call.short_lived_token)
       THEN Raise("ValueError", Noted(call, FALSE, FALSE))
       ELSE LET needed == NeedsLogin(call.bearer_token, call.short_lived_token)
            IN  \E login \in (IF needed THEN LoginOutcomes ELSE {"none"}),
                   response \in ContentResponses, header \in AuthHeaders :
                   IF login \in {"refused", "network"}
                   THEN Raise("AuthenticationError", Noted(call, TRUE, TRUE))
                   ELSE LET after == [Noted(call, TRUE, needed) EXCEPT
                                         !.bearer_token =
                                             BearerAfterResponse(
                                                 BearerAfterLogin(@, login),
                                                 response, header),
                                         !.responses = Append(@, response)]
                        IN  IF ContentOutcome(response) = "success"
                            THEN call' = [after EXCEPT !.pc = "returned",
                                                        !.result = "success"]
                            ELSE Raise(ContentOutcome(response), after)
    /\ UNCHANGED << others, text_in, text_out >>

\* wait_exponential has elapsed: the decorator calls the function again.
Backoff ==
    /\ call.pc = "backoff"
    /\ call' = [call EXCEPT !.pc = "attempt", !.attempt_number = @ + 1]
    /\ UNCHANGED << others, text_in, text_out >>

\* The caller has the result or the exception; the client keeps its token.
\* previous remembers how the call ended.
CallEnd ==
    /\ CallEnded
    /\ call' = [pc |-> "idle", bearer_token |-> call.bearer_token,
                previous |-> call.result]
    /\ UNCHANGED << others, text_in, text_out >>

InitFetch ==
    /\ Init
    /\ dir = EmptyDir
    /\ fetch_outcome = [u \in Uuids |-> "ok"]

NextFetch ==
    \/ CallStart
    \/ Attempt
    \/ Backoff
    \/ CallEnd

SpecFetch == InitFetch /\ [][NextFetch]_vars

(***************************************************************************)
(* validate_handle and sanitize_filename as functions of their argument     *)
(***************************************************************************)
\* The longest argument tried.
MaxTextLen == 4

\* An ASCII digit, a letter, the slash, the dot, the newline and a decimal
\* digit outside ASCII.
TextChars == {"7", "x", "/", ".", Newline, ArabicThree}

\* Every string over TextChars of MaxTextLen characters or fewer.
Texts == UNION { [1..n -> TextChars] : n \in 0..MaxTextLen }

\* validate_handle(text_in): InvalidHandleError, or the argument returned.
ValidateHandleCall ==
    /\ text_out = NoTextResult
    /\ text_out' = IF validate_handle(text_in)
                   THEN [op |-> "validate_handle", raised |-> FALSE, value |-> text_in]
                   ELSE [op |-> "validate_handle", raised |-> TRUE, value |-> NoText]
    /\ UNCHANGED << others, call, text_in >>

\* sanitize_filename(text_in)
SanitizeCall ==
    /\ text_out = NoTextResult
    /\ text_out' = [op |-> "sanitize_filename", passes |-> 1,
                    first |-> sanitize_filename(text_in),
                    value |-> sanitize_filename(text_in)]
    /\ UNCHANGED << others, call, text_in >>

\* sanitize_filename applied to what sanitize_filename returned.
SanitizeAgain ==
    /\ text_out.op = "sanitize_filename"
    /\ text_out.passes = 1
    /\ text_out' = [text_out EXCEPT !.passes = 2, !.value = sanitize_filename(@)]
    /\ UNCHANGED << others, call, text_in >>

\* An export directory holding one complete regular file under the name.
DirHolding(name) == [n \in {name} |-> FileEntry("placed", TRUE)]

\* export_batch, lines 283-317, and _download_file, line 188: the names the
\* loop computes for a handle that validate_handle accepts, and the outcome
\* of the test of line 317 when a file of the final name was in the export
\* directory at the scan of line 245.
FileNameCall ==
    /\ text_out = NoTextResult
    /\ validate_handle(text_in)
    /\ text_out' = [op |-> "file_name",
                    suffix |-> HandleSuffix(text_in),
                    name |-> FileNameOf(text_in),
                    temp |-> TempName(FileNameOf(text_in)),
                    in_place |-> FileAlreadyThere(text_in,
                                     GetExistingFiles(DirHolding(FileNameOf(text_in))))]
    /\ UNCHANGED << others, call, text_in >>

InitText ==
    /\ ExporterInit
    /\ dir = EmptyDir
    /\ fetch_outcome = [u \in Uuids |-> "ok"]
    /\ call = NoCall
    /\ text_in \in Texts
    /\ text_out = NoTextResult

NextText ==
    \/ ValidateHandleCall
    \/ SanitizeCall
    \/ SanitizeAgain
    \/ FileNameCall

SpecText == InitText /\ [][NextText]_vars

(***************************************************************************)
(* Properties                                                              *)
(***************************************************************************)
\* The data lines of a CSV: every line that is not the header line.
DataLineIndexes(lines) == { i \in 1..Len(lines) : lines[i] # CSV_FIELDNAMES }

HandleCell(line) == line[1]

FileCell(line) == line[2]

\* The handle suffixes the data lines of a CSV record.
RecordedSuffixes(lines) ==
    { LastSegment(HandleCell(lines[i]), "/") : i \in DataLineIndexes(lines) }

\* The lines the current run has appended so far.
NewLines == SubSeq(csv.lines, Len(at_start.lines) + 1, Len(csv.lines))

\* The data lines of the current run that are rows of the given handle.
NewRowsOf(handle) ==
    { i \in DataLineIndexes(NewLines) : HandleCell(NewLines[i]) = HandleUrl(handle) }

EventsOf(op, handle) == { k \in 1..Len(log) : log[k].op = op /\ log[k].handle = handle }

CountOf(op, handle) == Cardinality(EventsOf(op, handle))

\* The current run has read the CSV and the directory and is still in
\* export_batch or has returned from it.
ScanDone ==
    pc \in (RunningStates \ {"main_check", "setup", "validate_dates", "read_state"}) \cup {"done"}

\* The loop is through with the k-th handle.
Processed(k) == k < taken \/ (k = taken /\ pc \in {"loop", "close", "done"})

\* Everything the run does for a handle past the skip test.
WorkOps ==
    { "get_metadata_values", "get_bitstream_uuids", "get_bitstream_content",
      "write_temp", "rename", "writerow" }

NoWorkFor(handle) == \A op \in WorkOps : CountOf(op, handle) = 0

\* C1: at every point of every run, and after any stop, each data row of
\* metadata.csv names a regular file that is complete at its final path in
\* the export directory; and each row the current run wrote came after the
\* rename of that handle's file, or names a file that was there at run start.
C1_RowsNameCompleteFiles ==
    /\ \A i \in DataLineIndexes(csv.lines) :
          /\ FileCell(csv.lines[i]) \in DOMAIN dir
          /\ dir[FileCell(csv.lines[i])].kind = "file"
          /\ dir[FileCell(csv.lines[i])].complete
    /\ \A k \in 1..Len(log) :
          log[k].op = "writerow" =>
             \/ \E j \in 1..(k - 1) :
                   log[j].op = "rename" /\ log[j].handle = log[k].handle
             \/ FileNameOf(log[k].handle) \in DOMAIN at_start.dir

\* A run was stopped while a temporary file was half written, and a row for
\* a downloaded file is in the CSV.
C1_Witness ==
    /\ pc = "stopped"
    /\ \E i \in DataLineIndexes(csv.lines) :
          /\ FileCell(csv.lines[i]) \in DOMAIN dir
          /\ dir[FileCell(csv.lines[i])].data \in Uuids
    /\ \E n \in DOMAIN dir : ~dir[n].complete

\* C2: after any sequence of complete or interrupted runs over the same
\* directory, no two data rows of metadata.csv are rows of the same handle.
C2_OneRowPerHandle ==
    \A i, j \in DataLineIndexes(csv.lines) :
        i # j => HandleCell(csv.lines[i]) # HandleCell(csv.lines[j])

\* C3: in a run that follows earlier runs, interrupted or not, every row
\* that was in the CSV when the run started is recognised as already done:
\* its handle suffix is in the set the run read from the CSV.
C3_PriorRowsRecognised ==
    ScanDone => RecordedSuffixes(at_start.lines) \subseteq existing_in_csv

\* C4: a candidate whose suffix a data row of the CSV records at run start
\* is counted as skipped once, and the run makes no metadata lookup, no
\* identifier lookup, no fetch, no file write and no row write for it.
C4_RecordedHandlesSkipped ==
    ScanDone =>
        \A k \in 1..taken :
            ( /\ validate_handle(handles[k])
              /\ HandleSuffix(handles[k]) \in RecordedSuffixes(at_start.lines) )
            => /\ NoWorkFor(handles[k])
               /\ Processed(k) => CountOf("skipped", handles[k]) = 1

\* C5: a candidate whose <suffix>.pdf is a regular file in the directory at
\* run start and whose suffix no row of the CSV records gets no identifier
\* lookup and no fetch, and once the loop is through with it the run has
\* appended exactly one row for it, with File = <suffix>.pdf, and counted
\* one success and nothing else.
C5_ExistingFileRow ==
    ScanDone =>
        \A k \in 1..taken :
            ( /\ validate_handle(handles[k])
              /\ (HandleSuffix(handles[k]) \o DotPdf) \in DOMAIN at_start.dir
              /\ at_start.dir[HandleSuffix(handles[k]) \o DotPdf].kind = "file"
              /\ HandleSuffix(handles[k]) \notin RecordedSuffixes(at_start.lines) )
            => /\ CountOf("get_bitstream_uuids", handles[k]) = 0
               /\ CountOf("get_bitstream_content", handles[k]) = 0
               /\ CountOf("write_temp", handles[k]) = 0
               /\ Cardinality(NewRowsOf(handles[k])) <= 1
               /\ Processed(k) =>
                     /\ Cardinality(NewRowsOf(handles[k])) = 1
                     /\ \A i \in NewRowsOf(handles[k]) :
                           FileCell(NewLines[i]) = HandleSuffix(handles[k]) \o DotPdf
                     /\ CountOf("success", handles[k]) = 1
                     /\ CountOf("error", handles[k]) = 0
                     /\ CountOf("skipped", handles[k]) = 0

\* The loop is through with handle 7/2, whose 2.pdf was placed before the
\* run, and the run wrote its row.
C5_Witness ==
    /\ pc = "done"
    /\ Pdf2 \in DOMAIN at_start.dir
    /\ at_start.dir[Pdf2].kind = "file"
    /\ <<"2">> \notin RecordedSuffixes(at_start.lines)
    /\ CountOf("writerow", HB) = 1

\* A candidate the run exports when the loop reaches it: its handle is well
\* formed, the CSV read at run start does not give its suffix, its path is
\* safe, and its file is on disk at run start or one of its identifiers
\* downloads.
WouldSucceed(handle) ==
    /\ validate_handle(handle)
    /\ HandleSuffix(handle) \notin
          GetExistingHandlesFromCsv([exists |-> TRUE, lines |-> at_start.lines])
    /\ validate_safe_path(at_start.dir, FileNameOf(handle))
    /\ \/ HandleSuffix(handle) \in GetExistingFiles(at_start.dir)
       \/ \E i \in 1..Len(BitstreamUuids(handle)) :
             fetch_outcome[BitstreamUuids(handle)[i]] = "ok"

\* C6: a run with limit N > 0 that returns, over candidates of which at
\* least N would succeed, has written exactly N rows, reports limit_reached,
\* and reports as total_handles the number of all candidates that are not
\* embargoed, whatever the limit.
C6_LimitRows ==
    ( /\ pc = "done"
      /\ limit > 0
      /\ Cardinality({ k \in 1..Len(handles) : WouldSucceed(handles[k]) }) >= limit )
    => /\ Cardinality(DataLineIndexes(NewLines)) = limit
       /\ summary.limit_reached
       /\ summary.successful = limit
       /\ summary.total_handles =
             Cardinality({ k \in 1..Len(all_handles) : all_handles[k] \notin embargoed })

\* A run with limit 2 returned after two rows with a candidate left untaken.
C6_Witness ==
    /\ pc = "done"
    /\ limit = 2
    /\ Cardinality(DataLineIndexes(NewLines)) = 2
    /\ taken < Len(handles)
    /\ summary.total_handles = Len(handles)

\* The fetches made for a handle, in the order they were made.
IsFetchOf(handle, event) == event.op = "get_bitstream_content" /\ event.handle = handle

FetchesOf(handle) ==
    LET Test(event) == IsFetchOf(handle, event) IN SelectSeq(log, Test)

\* C7: for a record whose file was put in place by a download, the
\* identifiers fetched are the first ones of the list returned, in its
\* order, each one before the last having failed and the last one having
\* succeeded; one file was renamed into place and one row written; and when
\* the loop leaves the record, the file at its final path is the complete
\* content of the succeeding identifier.
C7_FirstSuccessWins ==
    ScanDone =>
        \A k \in 1..taken :
            (Processed(k) /\ CountOf("rename", handles[k]) > 0) =>
                LET h == handles[k]
                    fetched == FetchesOf(h)
                    n == Len(fetched)
                IN  /\ n >= 1
                    /\ n <= Len(BitstreamUuids(h))
                    /\ \A i \in 1..n : fetched[i].uuid = BitstreamUuids(h)[i]
                    /\ \A i \in 1..(n - 1) : fetch_outcome[fetched[i].uuid] # "ok"
                    /\ fetch_outcome[fetched[n].uuid] = "ok"
                    /\ CountOf("rename", h) = 1
                    /\ Cardinality(NewRowsOf(h)) = 1
                    /\ CountOf("success", h) = 1
                    /\ CountOf("error", h) = 0
                    /\ (k = taken /\ pc = "loop") =>
                          /\ FileNameOf(h) \in DOMAIN dir
                          /\ dir[FileNameOf(h)] = FileEntry(fetched[n].uuid, TRUE)

\* The loop has left handle 7/1 after its first identifier failed while
\* being written and its second one was put in place.
C7_Witness ==
    /\ pc = "loop"
    /\ taken >= 1
    /\ handles[taken] = HA
    /\ fetch_outcome["u1"] = "ioerror"
    /\ Len(FetchesOf(HA)) = 2
    /\ CountOf("writerow", HA) = 1
    /\ dir[Pdf1] = FileEntry("u2", TRUE)

\* No identifier of the handle downloads (it may have none).
AllFail(handle) ==
    \A i \in 1..Len(BitstreamUuids(handle)) :
        fetch_outcome[BitstreamUuids(handle)[i]] # "ok"

\* C8: for a record whose identifiers the run looked up and of which none
\* downloads, the run counts one error and writes no row, and when the loop
\* leaves the record its final path holds no file, or only the complete file
\* an earlier record with the same file name put there in this run.
C8_AllFailedNoRowNoFile ==
    ScanDone =>
        /\ stats.errors = Cardinality({ j \in 1..Len(log) : log[j].op = "error" })
        /\ \A k \in 1..taken :
              ( /\ Processed(k)
                /\ CountOf("get_bitstream_uuids", handles[k]) > 0
                /\ AllFail(handles[k]) )
              => /\ CountOf("error", handles[k]) = 1
                 /\ CountOf("writerow", handles[k]) = 0
                 /\ CountOf("success", handles[k]) = 0
                 /\ CountOf("rename", handles[k]) = 0
                 /\ NewRowsOf(handles[k]) = {}
                 /\ (k = taken /\ pc = "loop" /\ FileNameOf(handles[k]) \in DOMAIN dir) =>
                       /\ dir[FileNameOf(handles[k])].complete
                       /\ \E j \in 1..(k - 1) :
                             /\ handles[j] # handles[k]
                             /\ FileNameOf(handles[j]) = FileNameOf(handles[k])
                             /\ \E e \in EventsOf("rename", handles[j]) :
                                   dir[FileNameOf(handles[k])].data = log[e].uuid

\* The loop has left handle 7/1, both of whose identifiers failed, the first
\* one while its temporary file was being written.
C8_Witness ==
    /\ pc = "loop"
    /\ taken >= 1
    /\ handles[taken] = HA
    /\ Len(FetchesOf(HA)) = 2
    /\ CountOf("write_temp", HA) = 1
    /\ CountOf("error", HA) = 1
    /\ Pdf1 \notin DOMAIN dir

\* Both dates are given and valid and the start is a later day than the end.
InvertedRange(start, end) ==
    /\ start # NoDate
    /\ end # NoDate
    /\ validate_date(start)
    /\ validate_date(end)
    /\ DateKey(start) > DateKey(end)

\* C9: a run given a start date later than its end date never makes the
\* lookup of the handles to export: it is refused before, however it was
\* started.
C9_InvertedRangeRejected ==
    InvertedRange(start_date, end_date) =>
        \A j \in 1..Len(log) : log[j].op # "get_handles_for_export"

\* C10: a handle the embargo lookup of the run returned is not among the
\* handles the loop goes through, nothing at all is done for it, and
\* total_handles counts the candidates without it.
C10_EmbargoedUntouched ==
    /\ \A h \in embargoed :
          /\ \A k \in 1..Len(handles) : handles[k] # h
          /\ \A j \in 1..Len(log) : log[j].handle # h
          /\ NewRowsOf(h) = {}
    /\ summary.produced =>
          summary.total_handles =
             Cardinality({ k \in 1..Len(all_handles) : all_handles[k] \notin embargoed })

\* A run returned with 7/1 embargoed while 1.pdf is in the directory and an
\* earlier run has left a row for 7/1 in the CSV.
C10_Witness ==
    /\ pc = "done"
    /\ embargoed = {HA}
    /\ Pdf1 \in DOMAIN dir
    /\ \E i \in DataLineIndexes(at_start.lines) :
          HandleCell(at_start.lines[i]) = HandleUrl(HA)
    /\ summary.total_handles = Len(all_handles) - 1
    /\ summary.successful >= 1

\* C11: a metadata.csv that holds data rows has the header as its first line
\* and no second header line, after any sequence of runs, interrupted or not.
C11_HeaderFirstOnce ==
    DataLineIndexes(csv.lines) # {} =>
        /\ csv.lines[1] = CSV_FIELDNAMES
        /\ \A i \in 2..Len(csv.lines) : csv.lines[i] # CSV_FIELDNAMES

\* C12: every line that was in metadata.csv when the current run started is
\* still there, unchanged and at the same position, at every later point of
\* the run and after it has returned, failed or was interrupted: a run only
\* appends.
C12_RunOnlyAppends ==
    /\ Len(at_start.lines) <= Len(csv.lines)
    /\ SubSeq(csv.lines, 1, Len(at_start.lines)) = at_start.lines
    /\ at_start.lines # <<>> => csv.exists

\* A run that found a header and a row in the CSV has appended a row of its
\* own and was then ended by an exception.
C12_Witness ==
    /\ pc = "raised"
    /\ Len(at_start.lines) >= 2
    /\ DataLineIndexes(at_start.lines) # {}
    /\ Len(csv.lines) > Len(at_start.lines)

\* The step the program takes next finds a per-record failure: the handle is
\* invalid, the path leaves the export directory, the record has no file
\* identifiers, or the last of its identifiers fails to download.
RecordFailsNow ==
    \/ /\ pc = "loop"
       /\ taken < Len(handles)
       /\ ~LimitReached(limit, downloaded_count)
       /\ ~validate_handle(handles[taken + 1])
    \/ /\ pc = "metadata"
       /\ ~validate_safe_path(dir, FileNameOf(CurrentHandle))
    \/ /\ pc = "get_uuids"
       /\ BitstreamUuids(CurrentHandle) = <<>>
    \/ /\ pc = "fetch"
       /\ uuid_index = Len(uuids)
       /\ fetch_outcome[CurrentUuid] \in {"error", "big"}
    \/ /\ pc = "write_temp_end"
       /\ uuid_index = Len(uuids)
       /\ fetch_outcome[CurrentUuid] = "ioerror"

\* A step that finds a per-record failure adds one to the error count and
\* nothing to the other counts, writes no row and is back at the head of the
\* loop, where the next handle is taken; and no other step of a run changes
\* the error count.
PerRecordFailureCounted ==
    /\ (RecordFailsNow /\ pc' \notin {"stopped", "raised"}) =>
          /\ stats'.errors = stats.errors + 1
          /\ stats'.success = stats.success
          /\ stats'.skipped = stats.skipped
          /\ csv' = csv
          /\ handles' = handles
          /\ taken' \in {taken, taken + 1}
          /\ pc' = "loop"
    /\ (pc \in RunningStates /\ pc' \in RunningStates \cup EndStates
           /\ stats'.errors # stats.errors) => RecordFailsNow

\* Where a metadata lookup or the configuration fails.
LookupOrSetupStates == {"setup", "get_handles", "get_embargoed", "metadata", "get_uuids"}

\* Where metadata.csv is opened or written.
CsvWriteStates == {"open_csv", "write_header", "row_existing", "row_downloaded"}

\* C13 as stated: a per-record failure counts one error and the run goes on
\* with the next candidate; an exception ends the run only where a metadata
\* lookup or the configuration fails.
C13_OnlyLookupOrSetupAborts ==
    [][ /\ PerRecordFailureCounted
        /\ pc' = "raised" => pc \in LookupOrSetupStates ]_vars

\* C13, amended: a per-record failure counts one error and the run goes on
\* with the next candidate; an exception ends the run only where a metadata
\* lookup or the configuration fails, where a date argument is invalid, or
\* where metadata.csv cannot be opened or written.
C13_PerRecordFailuresDoNotAbort ==
    [][ /\ PerRecordFailureCounted
        /\ pc' = "raised" =>
              \/ pc \in LookupOrSetupStates \cup CsvWriteStates
              \/ /\ pc = "validate_dates"
                 /\ \/ start_date # NoDate /\ ~validate_date(start_date)
                    \/ end_date # NoDate /\ ~validate_date(end_date) ]_vars

\* A run returned after an invalid handle and a record without identifiers
\* were each counted as one error and a later record was exported.
C13_Witness ==
    /\ pc = "done"
    /\ CountOf("error", HBad) = 1
    /\ CountOf("error", HB) = 1
    /\ CountOf("success", HC) = 1
    /\ summary.errors = 2

\* A response that makes the call try again: 429 or 5xx.
IsTransient(response) ==
    /\ ~response.net
    /\ response.status = 429 \/ (500 <= response.status /\ response.status < 600)

AllTransient == \A i \in 1..Len(call.responses) : IsTransient(call.responses[i])

LastResponse == call.responses[Len(call.responses)]

\* C14: a call makes at most MAX_ATTEMPTS = 3 requests for the content; a
\* request is repeated only after a 429 or 5xx response, so a success ends
\* the retries; and a call that received nothing but 429 and 5xx responses
\* and whose logins did not fail ends only after the third of them, with the
\* error of the last response.
C14_RetryCeiling ==
    call.pc # "idle" =>
        /\ Len(call.responses) <= MAX_ATTEMPTS
        /\ call.attempt_number <= MAX_ATTEMPTS
        /\ \A i \in 1..(Len(call.responses) - 1) : IsTransient(call.responses[i])
        /\ \A i \in 1..Len(call.responses) :
              call.responses[i] = Reply(200) =>
                 /\ i = Len(call.responses)
                 /\ call.pc = "returned"
                 /\ call.result = "success"
        /\ call.pc = "backoff" =>
              /\ Len(call.responses) < MAX_ATTEMPTS
              /\ IsTransient(LastResponse)
        /\ ( /\ CallEnded
             /\ call.responses # <<>>
             /\ AllTransient
             /\ call.result # "AuthenticationError" ) =>
                /\ Len(call.responses) = MAX_ATTEMPTS
                /\ call.result = HandleResponse(LastResponse.status)
                /\ call.result \in {"RateLimitError", "ServerError"}

\* A call that got 429 three times and then raised RateLimitError.
C14_Witness ==
    /\ call.pc = "raised"
    /\ call.responses = << Reply(429), Reply(429), Reply(429) >>
    /\ call.result = "RateLimitError"

\* C15: a call that ends on a network-level failure of the content request
\* has made MAX_ATTEMPTS requests: the failure was retried up to the ceiling
\* before it was surfaced.
C15_NetworkFailureRetried ==
    ( /\ call.pc = "raised"
      /\ call.responses # <<>>
      /\ LastResponse = NetworkFailure ) =>
         Len(call.responses) = MAX_ATTEMPTS

\* The call ended on what the content request gave, not on a failed login.
EndedOnResponse ==
    /\ CallEnded
    /\ call.responses # <<>>
    /\ ~(IsTransient(LastResponse) /\ call.result = "AuthenticationError")

\* A response after which no further request is made.
NoRetryAfterPermanent ==
    /\ \A i \in 1..(Len(call.responses) - 1) : IsTransient(call.responses[i])
    /\ (call.pc = "backoff" => IsTransient(LastResponse))

\* 401, 404 and the other statuses that are neither 429 nor 5xx each give
\* their own error kind.
DistinctErrorKinds ==
    (EndedOnResponse /\ ~LastResponse.net) =>
        /\ LastResponse.status = 401 => call.result = "AuthenticationError"
        /\ LastResponse.status = 404 => call.result = "NotFoundError"
        /\ ( /\ LastResponse.status \notin {401, 404}
             /\ ~IsTransient(LastResponse)
             /\ LastResponse.status \notin 200..299 ) => call.result = "DSpaceAPIError"
        /\ call.result \in {"AuthenticationError", "NotFoundError", "DSpaceAPIError"}
              => call.pc = "raised"

\* C16 as stated: a 401, a 404 or another status that is neither 2xx, 429
\* nor 5xx ends the call at once with its own error kind, and any 2xx
\* response is a success.
C16_Any2xxSucceeds ==
    call.pc # "idle" =>
        /\ NoRetryAfterPermanent
        /\ DistinctErrorKinds
        /\ (EndedOnResponse /\ ~LastResponse.net /\ LastResponse.status \in 200..299) =>
              (call.pc = "returned" /\ call.result = "success")

\* C16, amended: a 401, a 404 or another status that is neither 200, 429 nor
\* 5xx ends the call at once with its own error kind, the generic API error
\* for a 2xx status other than 200; a 200 response is a success, and the
\* only one.
C16_Only200Succeeds ==
    call.pc # "idle" =>
        /\ NoRetryAfterPermanent
        /\ DistinctErrorKinds
        /\ (EndedOnResponse /\ ~LastResponse.net) =>
              /\ LastResponse.status = 200 <=> (call.pc = "returned" /\ call.result = "success")
              /\ ( /\ LastResponse.status \in 200..299
                   /\ LastResponse.status # 200 ) =>
                      (call.pc = "raised" /\ call.result = "DSpaceAPIError")

\* A call that raised NotFoundError after its only request, a 404.
C16_Witness ==
    /\ call.pc = "raised"
    /\ call.responses = << Reply(404) >>
    /\ call.result = "NotFoundError"

\* main ends the process of a run started from the command line.
MainExits == pc \in EndStates /\ pc' = "exited" /\ entry = "cli"

\* The process of a run started from the command line is interrupted or
\* killed.
MainStopped == pc \in RunningStates /\ pc' = "stopped" /\ entry = "cli"

\* C17 as stated: the exit code is 0 exactly when the run completed with no
\* record error, 1 when it completed with record errors or ended with an
\* uncaught failure, rejected arguments included, 130 when it was interrupted,
\* and never anything else.
C17_ExitCodesZeroOneInterrupt ==
    [][ /\ MainExits =>
              /\ exit_code' = {0} <=> (pc = "done" /\ summary.errors = 0)
              /\ exit_code' = {1} <=>
                    \/ pc = "done" /\ summary.errors > 0
                    \/ pc \in {"raised", "rejected"}
        /\ MainStopped => exit_code' \in { {INTERRUPT_EXIT}, NoExit }
        /\ exit_code' \subseteq {0, 1, INTERRUPT_EXIT} ]_vars

\* C17, amended: the exit code is 0 exactly when the run completed with no
\* record error, 1 exactly when it completed with record errors or ended with
\* an exception, 2 exactly when main rejected the arguments, 130 when it was
\* interrupted, and never anything else.
C17_ExitCodes ==
    [][ /\ MainExits =>
              /\ exit_code' = {0} <=> (pc = "done" /\ summary.errors = 0)
              /\ exit_code' = {1} <=>
                    \/ pc = "done" /\ summary.errors > 0
                    \/ pc = "raised"
              /\ exit_code' = {USAGE_EXIT} <=> pc = "rejected"
        /\ MainStopped => exit_code' \in { {INTERRUPT_EXIT}, NoExit }
        /\ exit_code' \subseteq {0, 1, USAGE_EXIT, INTERRUPT_EXIT} ]_vars

\* A process that main ended with status 2.
C17_Witness ==
    /\ pc = "exited"
    /\ exit_code = {USAGE_EXIT}

\* The run has got its candidates from the two lookups at its start.
CandidatesFetched == \E j \in 1..Len(log) : log[j].op = "get_embargoed_handles"

\* C18: a run that got its candidates and has ended, by returning or by an
\* exception of a later lookup or CSV write, has produced its summary.
C18_SummaryAlways ==
    (pc \in {"done", "raised"} /\ CandidatesFetched) => summary.produced

\* One or more ASCII digits, a slash, one or more ASCII digits, and nothing
\* else.
ExactHandle(text) ==
    \E k \in 2..(Len(text) - 1) :
        /\ text[k] = "/"
        /\ \A i \in 1..(k - 1) : text[i] \in AsciiDigits
        /\ \A i \in (k + 1)..Len(text) : text[i] \in AsciiDigits

\* C19: validate_handle raises InvalidHandleError for every string that is
\* not digits, slash, digits in ASCII and nothing more, and returns every
\* string of that form unchanged.
C19_ExactHandlesOnly ==
    text_out.op = "validate_handle" =>
        /\ text_out.raised <=> ~ExactHandle(text_in)
        /\ ~text_out.raised => text_out.value = text_in

\* C20: sanitize_filename applied to its own result returns that result.
C20_SanitizeIdempotent ==
    (text_out.op = "sanitize_filename" /\ text_out.passes = 2) =>
        text_out.value = text_out.first

\* sanitize_filename took a slash and a dot out of "x./." and found nothing
\* to change in "x." on the second pass.
C20_Witness ==
    /\ text_in = << "x", ".", "/", "." >>
    /\ text_out.op = "sanitize_filename"
    /\ text_out.passes = 2
    /\ text_out.first = << "x", "." >>
    /\ text_out.value = << "x", "." >>

\* C21: what sanitize_filename returns has only characters of [A-Za-z0-9._-],
\* does not begin with a dot and has no two dots in a row.
C21_SanitizedShape ==
    text_out.op = "sanitize_filename" =>
        /\ \A i \in 1..Len(text_out.first) : text_out.first[i] \in SafeChars
        /\ text_out.first # <<>> => text_out.first[1] # "."
        /\ \A i \in 1..(Len(text_out.first) - 1) :
              ~(text_out.first[i] = "." /\ text_out.first[i + 1] = ".")

\* sanitize_filename("./.x") has lost the slash and both leading dots.
C21_Witness ==
    /\ text_in = << ".", "/", ".", "x" >>
    /\ text_out.op = "sanitize_filename"
    /\ text_out.passes = 1
    /\ text_out.first = << "x" >>

\* C22: a run on the DatabaseConnection that was given an end date makes the
\* lookup of its candidates with its bounds and proceeds with what the lookup
\* returns.
C22_DateFilteredCandidates ==
    [][ ( /\ pc = "get_handles"
          /\ db_impl = "DatabaseConnection"
          /\ end_date # NoDate
          /\ pc' # "stopped" ) => pc' = "get_embargoed" ]_vars

\* Where a handle stands in the list the lookup returned.
PositionOf(handle) == CHOOSE k \in 1..Len(all_handles) : all_handles[k] = handle

\* The handle at the given position of the list has the given row.
RowOfPosition(line, k) == HandleCell(line) = HandleUrl(all_handles[k])

\* C23: what a run does for its candidates it does in the order of the list
\* the lookup returned: an operation for one handle is never followed by an
\* operation for a handle that stands earlier in the list, so the work on a
\* candidate is over when the work on the next one starts; and the rows the
\* run appends stand in the CSV in the order of their handles in the list.
C23_LookupOrderKept ==
    ScanDone =>
        /\ \A i \in 1..Len(log) : \A j \in (i + 1)..Len(log) :
              (log[i].handle # <<>> /\ log[j].handle # <<>>) =>
                  PositionOf(log[i].handle) <= PositionOf(log[j].handle)
        /\ \A i \in DataLineIndexes(NewLines) : \A j \in DataLineIndexes(NewLines) :
              i < j =>
                 \E a \in 1..Len(all_handles) : \E b \in 1..Len(all_handles) :
                     /\ a < b
                     /\ RowOfPosition(NewLines[i], a)
                     /\ RowOfPosition(NewLines[j], b)

\* A run returned after it wrote the row of 7/1, counted an error for 7/2 and
\* then wrote the row of 8/1.
C23_Witness ==
    /\ pc = "done"
    /\ all_handles = StoredHandles
    /\ Cardinality(NewRowsOf(HA)) = 1
    /\ CountOf("error", HB) = 1
    /\ Cardinality(NewRowsOf(HC)) = 1
    /\ \A i \in NewRowsOf(HA) : \A j \in NewRowsOf(HC) : i < j

\* A name that stands for a direct child of the directory it is joined to.
DirectChildName(name) ==
    /\ name # <<>>
    /\ ~Contains(name, "/")
    /\ name # << "." >>
    /\ name # << ".", "." >>

\* C24: the temporary and the final file of a record are direct children of
\* the export directory, and the final file is named <suffix>.pdf, suffix
\* being the second segment of the record's handle, so that distinct suffixes
\* have distinct files.
C24_FilesNamedBySuffix ==
    text_out.op = "file_name" =>
        /\ DirectChildName(text_out.name)
        /\ DirectChildName(text_out.temp)
        /\ text_out.name = text_out.suffix \o DotPdf

\* Where an identifier stands in the list of its handle.
UuidPosition(handle, uuid) ==
    CHOOSE i \in 1..Len(BitstreamUuids(handle)) : BitstreamUuids(handle)[i] = uuid

\* The j-th logged operation is followed at once by the given one.
FollowedBy(j, op, handle, uuid) ==
    /\ j < Len(log)
    /\ log[j + 1] = Event(op, handle, uuid)

\* C25: a fetched body longer than MAX_FILE_SIZE is a failed download:
\* nothing of it is written to the temporary or the final path, the next
\* identifier of the record is fetched if there is one, and no row is written
\* if there is none; a body of exactly MAX_FILE_SIZE bytes is written.
C25_OversizeIsFailure ==
    ScanDone =>
        \A j \in 1..Len(log) :
            log[j].op = "get_bitstream_content" =>
                LET h == log[j].handle
                    u == log[j].uuid
                    i == UuidPosition(h, u)
                    length == BodyLength(fetch_outcome[u])
                IN  /\ (fetch_outcome[u] = "big" /\ length > MAX_FILE_SIZE) =>
                          /\ \A k \in 1..Len(log) :
                                log[k].uuid = u => log[k].op = "get_bitstream_content"
                          /\ \A n \in DOMAIN dir : dir[n].data # u
                          /\ i < Len(BitstreamUuids(h)) =>
                                IF j = Len(log)
                                THEN pc = "fetch" /\ CurrentHandle = h /\ uuid_index = i + 1
                                ELSE FollowedBy(j, "get_bitstream_content", h,
                                                BitstreamUuids(h)[i + 1])
                          /\ i = Len(BitstreamUuids(h)) =>
                                /\ CountOf("writerow", h) = 0
                                /\ NewRowsOf(h) = {}
                                /\ FollowedBy(j, "error", h, "-")
                    /\ (fetch_outcome[u] = "ok" /\ length = MAX_FILE_SIZE) =>
                          IF j = Len(log)
                          THEN pc = "write_temp" /\ CurrentHandle = h /\ CurrentUuid = u
                          ELSE FollowedBy(j, "write_temp", h, u)

\* The first identifier of 7/1 came with a body over the limit, the second
\* with a body of exactly the limit, which is now the file of the record's row.
C25_Witness ==
    /\ pc = "loop"
    /\ taken >= 1
    /\ handles[1] = HA
    /\ fetch_outcome["u1"] = "big"
    /\ fetch_outcome["u2"] = "ok"
    /\ BodyLength(fetch_outcome["u2"]) = MAX_FILE_SIZE
    /\ CountOf("get_bitstream_content", HA) = 2
    /\ Cardinality(NewRowsOf(HA)) = 1
    /\ Pdf1 \in DOMAIN dir
    /\ dir[Pdf1] = FileEntry("u2", TRUE)

\* The rows the current run has counted as its successes.
SuccessCount == Cardinality({ j \in 1..Len(log) : log[j].op = "success" })

\* C26: a run with limit > 0 appends at most limit rows, and once its own
\* successes have reached the limit the success that reached it is the last
\* thing the run does for any candidate: the loop is left, and no later
\* candidate is counted, validated, looked up, fetched or written.
C26_LoopStopsAtLimit ==
    (ScanDone /\ limit > 0) =>
        /\ Cardinality(DataLineIndexes(NewLines)) <= limit
        /\ SuccessCount = Cardinality(DataLineIndexes(NewLines))
           \/ pc \in {"row_existing", "row_downloaded"}
        /\ SuccessCount >= limit =>
              /\ SuccessCount = limit
              /\ log[Len(log)] = Event("success", handles[taken], "-")
              /\ pc \in {"loop", "close", "done"}
              /\ stats.total = taken
              /\ stats.success + stats.skipped + stats.errors = taken
              /\ \A k \in (taken + 1)..Len(handles) :
                    \A j \in 1..Len(log) : log[j].handle # handles[k]

\* A run with limit 1 has left the loop after its first success with
\* candidates left that it did not touch.
C26_Witness ==
    /\ pc = "close"
    /\ limit = 1
    /\ SuccessCount = 1
    /\ taken < Len(handles)
    /\ stats.total = taken

\* The attempts of the call under way, as recorded.
AttemptsMade == IF call.pc = "idle" THEN <<>> ELSE call.attempts

\* The step is an attempt that called authenticate().
AuthenticatesNow ==
    /\ call.pc = "attempt"
    /\ Len(call'.attempts) > Len(call.attempts)
    /\ call'.attempts[Len(call'.attempts)].authenticated

\* While the client holds a bearer token no attempt calls authenticate().
NoLoginWhileHeld == Truthy(call.bearer_token) => ~AuthenticatesNow

\* C27 as stated: every attempt of get_bitstream_content calls authenticate()
\* exactly when the client held no bearer token and the caller supplied no
\* short-lived token, and a client that holds a bearer token keeps holding one
\* and never calls authenticate() again.
C27_EveryAttemptAuthenticatesIff ==
    /\ [](\A i \in 1..Len(AttemptsMade) :
             AttemptsMade[i].authenticated
                 <=> (~AttemptsMade[i].held /\ ~AttemptsMade[i].supplied))
    /\ [][NoLoginWhileHeld /\ (Truthy(call.bearer_token) => Truthy(call'.bearer_token))]_vars

\* C27: an attempt of get_bitstream_content whose arguments passed validation
\* calls authenticate() exactly when the client held no bearer token and the
\* caller supplied no short-lived token; an attempt stopped by validation
\* does not call it; and while the client holds a bearer token no attempt
\* calls it, whatever the earlier responses were.
C27_AuthenticatesIffNoCredential ==
    /\ [](\A i \in 1..Len(AttemptsMade) :
             AttemptsMade[i].authenticated
                 <=> ( /\ AttemptsMade[i].reached
                       /\ ~AttemptsMade[i].held
                       /\ ~AttemptsMade[i].supplied ))
    /\ [][NoLoginWhileHeld]_vars

\* A call that followed a 401 found the bearer token still held, made its
\* request without calling authenticate(), and was answered.
C27_Witness ==
    /\ call.pc = "returned"
    /\ call.previous = "AuthenticationError"
    /\ call.short_lived_token = "None"
    /\ call.attempts[1].held
    /\ call.attempts[1].reached
    /\ ~call.attempts[1].authenticated

\* re.sub(r'\s+', ' ', value).strip() of one value.
WhitespaceNormalized(value) == StripSpace(CollapseSpace(value))

\* What the claim gives as the cell of a field.
ExpectedCell(label, values) ==
    IF label = "Type"
    THEN (IF values = <<>> THEN <<>> ELSE WhitespaceNormalized(values[1]))
    ELSE WhitespaceNormalized(JoinValues(values))

\* C28: in every row a run writes, the Type cell is the whitespace-normalized
\* first value of the classification field alone, and every other metadata
\* cell is the values of its field joined by "; " and whitespace-normalized.
C28_TypeCellIsFirstValue ==
    \A k \in 1..Len(StoredHandles) :
        \A i \in NewRowsOf(StoredHandles[k]) :
            \A f \in 1..Len(WORK_FIELDS) :
                NewLines[i][2 + f] =
                    ExpectedCell(WORK_FIELDS[f].label,
                                 MetadataValues(StoredHandles[k], WORK_FIELDS[f].field))

\* Every identifier of the repository is fetched and written without error.
EveryFetchSucceeds == \A u \in Uuids : fetch_outcome[u] = "ok"

\* The lines hold a row whose Handle cell is the full URL of the handle.
HasOwnRow(lines, handle) ==
    \E i \in DataLineIndexes(lines) : HandleCell(lines[i]) = HandleUrl(handle)

\* The run started on a directory without links and on a CSV that was absent
\* or began with the header line.
OrderlyStart ==
    /\ \A n \in DOMAIN at_start.dir : at_start.dir[n].kind = "file"
    /\ at_start.lines # <<>> => at_start.lines[1] = CSV_FIELDNAMES

\* The handle has a file to export: one placed before the run, or an
\* identifier to fetch.
HasContent(handle) ==
    \/ HandleSuffix(handle) \in GetExistingFiles(at_start.dir)
    \/ BitstreamUuids(handle) # <<>>

\* C29: when a run with limit 0 has returned, every lookup and every fetch
\* having succeeded, every candidate that is not embargoed, passes
\* validate_handle and has content has a row carrying its own full handle
\* URL, and such a candidate was skipped only if a row with its own URL was
\* in the CSV when the run started.
C29_EveryCandidateHasOwnRow ==
    ( /\ pc = "done"
      /\ summary.produced
      /\ limit = 0
      /\ EveryFetchSucceeds
      /\ OrderlyStart ) =>
        \A k \in 1..Len(handles) :
            (validate_handle(handles[k]) /\ HasContent(handles[k])) =>
                /\ HasOwnRow(csv.lines, handles[k])
                /\ CountOf("skipped", handles[k]) > 0
                      => HasOwnRow(at_start.lines, handles[k])

\* The positions in the log of the renames into a final path.
RenameEvents == { k \in 1..Len(log) : log[k].op = "rename" }

\* The identifiers of a handle.
UuidsOf(handle) == { BitstreamUuids(handle)[i] : i \in 1..Len(BitstreamUuids(handle)) }

\* C30: within one run no two different handles have a download renamed to
\* the same final path, and the file a downloaded row names holds, at every
\* point, content fetched for an identifier of the handle of that row.
C30_FileNeverReplaced ==
    ScanDone =>
        /\ \A j \in RenameEvents : \A k \in RenameEvents :
              log[j].handle # log[k].handle
                  => FileNameOf(log[j].handle) # FileNameOf(log[k].handle)
        /\ \A k \in 1..Len(handles) :
              CountOf("rename", handles[k]) > 0 =>
                  \A i \in NewRowsOf(handles[k]) :
                      /\ FileCell(NewLines[i]) \in DOMAIN dir
                      /\ dir[FileCell(NewLines[i])].data \in UuidsOf(handles[k])

\* C31: for a handle that validate_handle accepts and whose sanitized file
\* name is that of a .pdf file present when the run scanned the directory,
\* the loop takes the branch that only writes a row: the test of line 317
\* finds the file, so nothing is fetched and nothing written over it.
C31_ExistingFileKept ==
    (text_out.op = "file_name" /\ PathSuffix(text_out.name) = DotPdf)
        => text_out.in_place

\* C32: the summary a call of export_batch returns counts that call alone:
\* processed is the sum of successful, skipped and errors and is at most
\* total_handles, and successful is the number of rows the call appended,
\* hence at most the limit when one is set.
C32_SummaryOfThisCall ==
    (pc = "done" /\ summary.produced) =>
        /\ summary.processed = summary.successful + summary.skipped + summary.errors
        /\ summary.processed <= summary.total_handles
        /\ summary.successful = Cardinality(DataLineIndexes(NewLines))
        /\ limit > 0 => summary.successful <= limit

====
